---- MODULE Spec2Model ----
(***************************************************************************)
(* A model of "Manual Continuous tracking/python.py": a trading bot that   *)
(* logs in to a broker, polls the account's positions until a cutoff time, *)
(* and submits one monitor_trade task per newly seen trading symbol to a   *)
(* thread pool.  Each monitor polls quotes and places one sell order when  *)
(* the stop-loss or the target price is crossed.                           *)
(*                                                                         *)
(* Threads: the controller (TradingBot.run) and one thread per running     *)
(* monitor task.  A step of a thread is the code between two sleeps: one   *)
(* iteration of its loop.  Every call of the vendor API (NorenApi) is an   *)
(* input: it returns one of the values the broker can answer, or raises.   *)
(*                                                                         *)
(* Numbers.  Prices and percentages are Python floats in the source; the   *)
(* model computes with exact integers.  A threshold price is kept scaled   *)
(* by 100 (the divisor of the percentage), so buy_price * (1 - s / 100) is *)
(* the integer buy_price * (100 - s), and a quote q is compared with it as *)
(* q * 100.  Rounding of binary floating point is not modelled.            *)
(*                                                                         *)
(* Time.  now is the wall clock in seconds, counted from the start of the  *)
(* modelled window; it advances in steps of one sleep interval.  A thread  *)
(* that called time.sleep(d) is blocked until now >= wake = (time of the   *)
(* call) + d.                                                              *)
(*                                                                         *)
(* Outputs.  Logger.event_table only grows and nothing reads it, and the   *)
(* vendor API keeps no state the program reads.  The model keeps what the  *)
(* last step did to them: new_rows holds the rows that step appended to    *)
(* the event table, api_calls the vendor calls it made with their results. *)
(* The locals of a loop iteration (positions, response, current_price) are *)
(* assigned before they are read in every iteration and are not state.     *)
(*                                                                         *)
(* In Spec and MonitorSpec a call of log_event is part of the step of its  *)
(* thread.  LoggerSpec is the Logger alone under its concurrent callers:   *)
(* there log_event takes its two steps, reading the clock and adding the   *)
(* row, and event_table is the whole table.                                *)
(***************************************************************************)
EXTENDS Integers, Sequences, FiniteSets, TLC

\* ------------------------------------------------------------ configuration
DEFAULT_STOP_LOSS_PERCENT == 2
DEFAULT_TARGET_PERCENT == 5
FETCH_INTERVAL == 5
\* END_TIME ("15:25") as seconds after the start of the modelled window.
END_TIME == 10
\* the literal of time.sleep(5) in monitor_trade
MONITOR_INTERVAL == 5
\* the divisor of the percentages in calculate_prices
PERCENT == 100
\* ThreadPoolExecutor() without max_workers: min(32, cpu_count + 4) >= 5
max_workers == 5

\* ------------------------------------------------------------------ bounds
\* the clock stops after MaxTicks steps of FETCH_INTERVAL seconds
MaxTicks == 2
\* the longest list of positions one poll returns
MaxPoll == 2
\* the largest percentage and the largest small average price of MonitorSpec
MaxPercent == 5
MaxPrice == 2
\* the most rows the event table of LoggerSpec gets
MaxRows == 3

\* The positions the broker reports: symbol A short or long, symbol B flat.
AvgPrices == {100}
Positions ==
    {[tradingsymbol |-> "A", avgnetprice |-> a, netqty |-> q] :
        a \in AvgPrices, q \in {-1, 2}}
    \cup {[tradingsymbol |-> "B", avgnetprice |-> a, netqty |-> 0] : a \in AvgPrices}
Symbols == {p.tradingsymbol : p \in Positions}
\* last traded prices the broker quotes
QuotePrices == {97, 98, 100, 105, 106}

VARIABLES
    now,                \* wall clock, seconds
    ctl_pc,             \* where TradingBot.run is
    ctl_wake,           \* end of the controller's time.sleep
    session,            \* ShoonyaAPI.session
    tracked_positions,  \* TradeMonitor.tracked_positions: symbol -> position
    tasks,              \* the work items submitted to the executor, in order
    new_rows,           \* the rows the last step appended to Logger.event_table
    api_calls,          \* the vendor API calls the last step made, in order
    calls,              \* history: number of vendor calls the controller made
    hist,               \* history: per task, the orders it placed
    accesses,           \* history: who has read or written tracked_positions
    event_table,        \* Logger.event_table, in the specification of the Logger
    log_calls           \* per thread, its call of Logger.log_event in progress

vars == <<now, ctl_pc, ctl_wake, session, tracked_positions, tasks,
          new_rows, api_calls, calls, hist, accesses, event_table, log_calls>>

ctl_vars == <<ctl_pc, ctl_wake, session, tracked_positions>>

log_vars == <<event_table, log_calls>>

\* ------------------------------------------------------------------ values
\* A dict is a function on the set of its keys.
EmptyMapping == [k \in {} |-> "None"]

\* dict.get(key, default)
Get(d, key, default) == IF key \in DOMAIN d THEN d[key] ELSE default

\* The text of a number, and a text float() cannot parse.
Num(v) == [numeric |-> TRUE, v |-> v]
NotANumber == [numeric |-> FALSE, v |-> 0]

RECURSIVE SeqsUpTo(_, _)
SeqsUpTo(S, n) ==
    IF n = 0 THEN {<<>>}
    ELSE LET shorter == SeqsUpTo(S, n - 1)
         IN  shorter \cup {Append(q, x) : q \in {r \in shorter : Len(r) = n - 1}, x \in S}

\* What a vendor call does: it returns a value or raises.
Returns(v) == [raised |-> FALSE, value |-> v]
Raises == [raised |-> TRUE, value |-> <<>>]

\* the responses that carry a status
OkResponse == [stat |-> "Ok"]
NotOkResponse == [stat |-> "Not_Ok", emsg |-> "error"]

\* what the vendor's login and place_order can do
StatusOutcomes == {Returns(OkResponse), Returns(NotOkResponse), Raises}

\* what the vendor's logout can do
LogoutOutcomes == {Returns(OkResponse), Raises}

\* what the vendor's get_positions can do
PositionOutcomes == {Returns(ps) : ps \in SeqsUpTo(Positions, MaxPoll)} \cup {Raises}

\* what the vendor's get_quotes can do: a price, no price, a text that is no
\* price, a refusal, an exception
QuoteResponses ==
    {[stat |-> "Ok", lp |-> Num(p)] : p \in QuotePrices}
    \cup {OkResponse, [stat |-> "Ok", lp |-> NotANumber], NotOkResponse}
QuoteOutcomes == {Returns(q) : q \in QuoteResponses} \cup {Raises}

\* one call of a method of the vendor API and what it did
Call(method, args, outcome) == [method |-> method, args |-> args, outcome |-> outcome]

\* Logger.log_event: one row [Time, Status, Description] is appended
log_event(table, status, description) ==
    Append(table, [time |-> now, status |-> status, description |-> description])

\* The threads that call log_event: the controller and two monitors.
LogThreads == {"run", "monitor_1", "monitor_2"}

\* a thread's call of log_event: its arguments and its local current_time
NoLogCall == [active |-> FALSE, current_time |-> 0, status |-> "Info",
              description |-> <<>>]
NoLogCalls == [c \in LogThreads |-> NoLogCall]

\* --------------------------------------------------------------- the clock
Tick ==
    /\ now < MaxTicks * FETCH_INTERVAL
    /\ now' = now + FETCH_INTERVAL
    /\ new_rows' = <<>>
    /\ api_calls' = <<>>
    /\ UNCHANGED <<ctl_vars, tasks, calls, hist, accesses, log_vars>>

\* ------------------------------------------------------------- ShoonyaAPI
\* The methods take the outcome of their vendor call and the rows the step
\* has appended so far; they give back whether they raise, what they return
\* and the rows.

\* ShoonyaAPI.login: no try/except around the vendor call
login(out, table) ==
    LET t == log_event(log_event(log_event(table,
                 "Info", <<"Generating OTP for login.">>),
                 "Info", <<"OTP generated successfully.">>),
                 "Info", <<"Attempting to log in to Shoonya API.">>)
    IN  IF out.raised
        THEN [raised |-> TRUE, ret |-> FALSE, session |-> "None", table |-> t]
        ELSE IF Get(out.value, "stat", "None") = "Ok"
        THEN [raised |-> FALSE, ret |-> TRUE, session |-> "Ok",
              table |-> log_event(t, "Success", <<"Login successful.">>)]
        ELSE [raised |-> FALSE, ret |-> FALSE, session |-> "None",
              table |-> log_event(t, "Failed", <<"Login failed">>)]

get_positions_Propagating(out, table) ==
    [raised |-> out.raised, ret |-> out.value, table |-> table]

get_positions_Unlogged(out, table) ==
    IF out.raised THEN [raised |-> FALSE, ret |-> <<>>, table |-> table]
    ELSE [raised |-> FALSE, ret |-> out.value, table |-> table]

\* ShoonyaAPI.get_positions: try: return the vendor's value; except: log, []
get_positions(out, table) ==
    IF out.raised
    THEN [raised |-> FALSE, ret |-> <<>>,
          table |-> log_event(table, "Error", <<"Error fetching positions">>)]
    ELSE [raised |-> FALSE, ret |-> out.value, table |-> table]

\* ShoonyaAPI.get_quotes: try: return the vendor's value; except: log, {}
get_quotes(out, tradingsymbol, table) ==
    IF out.raised
    THEN [raised |-> FALSE, ret |-> EmptyMapping,
          table |-> log_event(table, "Error",
                              <<"Error fetching quotes for", tradingsymbol>>)]
    ELSE [raised |-> FALSE, ret |-> out.value, table |-> table]

\* ShoonyaAPI.place_order: every outcome of the vendor call ends in one log
\* row and a normal return without a value.
place_order(out, table) ==
    IF out.raised
    THEN [raised |-> FALSE,
          table |-> log_event(table, "Error", <<"Error placing order">>)]
    ELSE IF Get(out.value, "stat", "None") = "Ok"
    THEN [raised |-> FALSE,
          table |-> log_event(table, "Success", <<"Order placed successfully">>)]
    ELSE [raised |-> FALSE,
          table |-> log_event(table, "Failed", <<"Order placement failed">>)]

Order_Unsigned(tradingsymbol, quantity, action) ==
    [buy_or_sell |-> action, product_type |-> "M", exchange |-> "NFO",
     tradingsymbol |-> tradingsymbol,
     quantity |-> IF quantity < 0 THEN -quantity ELSE quantity,
     price_type |-> "MKT", retention |-> "DAY"]

\* the arguments place_order hands the vendor's place_order
Order(tradingsymbol, quantity, action) ==
    [buy_or_sell |-> action, product_type |-> "M", exchange |-> "NFO",
     tradingsymbol |-> tradingsymbol, quantity |-> quantity,
     price_type |-> "MKT", retention |-> "DAY"]

\* self.api.api.logout(): the vendor call itself, outside any try
logout(out) == [raised |-> out.raised]

\* ------------------------------------------------------------ TradeMonitor
calculate_prices_Swapped(buy_price, stop_loss_percent, target_percent) ==
    [stop_loss_price |-> buy_price * (PERCENT + stop_loss_percent),
     target_price |-> buy_price * (PERCENT - target_percent)]

\* TradeMonitor.calculate_prices; both prices are scaled by PERCENT
calculate_prices(buy_price, stop_loss_percent, target_percent) ==
    [stop_loss_price |-> buy_price * (PERCENT - stop_loss_percent),
     target_price |-> buy_price * (PERCENT + target_percent)]

\* float(x) raises ValueError on a text that is no number
FloatRaises(x) == ~x.numeric
float(x) == x.v

ResponseOk_Always(response) == TRUE

ResponseOk_NeedsPrice(response) ==
    Get(response, "stat", "None") = "Ok" /\ "lp" \in DOMAIN response

\* response.get("stat") != "Ok" is the failed fetch
ResponseOk(response) == Get(response, "stat", "None") = "Ok"

TargetHit_Strict(current_price, target_price) ==
    current_price * PERCENT > target_price

\* current_price >= target_price
TargetHit(current_price, target_price) ==
    current_price * PERCENT >= target_price

\* current_price <= stop_loss_price
StopLossHit(current_price, stop_loss_price) ==
    current_price * PERCENT =< stop_loss_price

\* one read or write of self.tracked_positions by a thread
Access(thread, kind) == [thread |-> thread, kind |-> kind]

MonitorAccesses_Shared(t) == {Access("monitor", "read")}

\* the accesses of monitor_trade to tracked_positions: its body names only
\* self.calculate_prices, self.logger and self.api
MonitorAccesses(t) == {}

\* The work item executor.submit(monitor_trade, position, s, t) queues, with
\* the locals monitor_trade keeps across iterations (unset until it runs).
NewTask(position, stop_loss_percent, target_percent) ==
    [pc |-> "queued", position |-> position,
     stop_loss_percent |-> stop_loss_percent, target_percent |-> target_percent,
     stop_loss_price |-> 0, target_price |-> 0, wake |-> 0]

\* history of one task: the number of its place_order calls
NewHist == [placed |-> 0]

Running == {i \in DOMAIN tasks : tasks[i].pc \notin {"queued", "done", "raised"}}
QueuedBefore(i) == {j \in 1..(i - 1) : tasks[j].pc = "queued"}

\* A worker thread takes the work item from the queue: the queue is first in,
\* first out, and at most max_workers threads exist.
WorkerFree(i) == Cardinality(Running) + Cardinality(QueuedBefore(i)) < max_workers

\* monitor_trade up to the loop
MonitorStart(i) ==
    /\ tasks[i].pc = "queued"
    /\ WorkerFree(i)
    /\ LET t == tasks[i]
           p == calculate_prices(t.position.avgnetprice, t.stop_loss_percent,
                                 t.target_percent)
       IN  /\ tasks' = [tasks EXCEPT ![i] =
                  [t EXCEPT !.pc = "watching",
                            !.stop_loss_price = p.stop_loss_price,
                            !.target_price = p.target_price]]
           /\ new_rows' = log_event(<<>>, "Info",
                                    <<"Monitoring", t.position.tradingsymbol>>)
    /\ api_calls' = <<>>
    /\ accesses' = accesses \cup MonitorAccesses(tasks[i])
    /\ UNCHANGED <<now, ctl_vars, calls, hist, log_vars>>

\* time.sleep(seconds) and back to the head of the loop
AfterSleep(t, seconds) == [t EXCEPT !.pc = "watching", !.wake = now + seconds]

AfterOrder_Continue(t) == AfterSleep(t, MONITOR_INTERVAL)

\* the break after self.api.place_order(...)
AfterOrder(t) == [t EXCEPT !.pc = "done"]

\* self.api.place_order(tradingsymbol, quantity, "S"); break.  st is the
\* iteration so far: the task, its history, the rows and the vendor calls.
PlaceAndBreak(st, out) ==
    LET t == st.task
        r == place_order(out, st.table)
    IN  [task |-> IF r.raised THEN [t EXCEPT !.pc = "raised"] ELSE AfterOrder(t),
         hist |-> [st.hist EXCEPT !.placed = @ + 1],
         table |-> r.table,
         api |-> Append(st.api, Call("place_order",
                     Order(t.position.tradingsymbol, t.position.netqty, "S"), out))]

\* One iteration of the while loop of monitor_trade.  qout and oout are the
\* outcomes of the vendor's get_quotes and (if it is called) place_order.
Iteration(t, h, qout, oout) ==
    LET sym == t.position.tradingsymbol
        q == get_quotes(qout, sym, <<>>)
        response == q.ret
        lp == Get(response, "lp", Num(0))
        st == [task |-> t, hist |-> h, table |-> q.table,
               api |-> <<Call("get_quotes", [exchange |-> "NFO", token |-> sym], qout)>>]
    IN  IF q.raised THEN [st EXCEPT !.task.pc = "raised"]
        ELSE IF ~ResponseOk(response)
        THEN [st EXCEPT !.task = AfterSleep(t, MONITOR_INTERVAL),
                        !.table = log_event(@, "Error", <<"Error fetching quotes">>)]
        ELSE IF FloatRaises(lp) THEN [st EXCEPT !.task.pc = "raised"]
        ELSE IF TargetHit(float(lp), t.target_price)
        THEN PlaceAndBreak([st EXCEPT !.table =
                 log_event(@, "Success", <<"Target hit for", sym>>)], oout)
        ELSE IF StopLossHit(float(lp), t.stop_loss_price)
        THEN PlaceAndBreak([st EXCEPT !.table =
                 log_event(@, "Success", <<"Stop-loss hit for", sym>>)], oout)
        ELSE [st EXCEPT !.task = AfterSleep(t, MONITOR_INTERVAL),
                        !.table = log_event(@, "Info", <<"within bounds", sym>>)]

\* the monitor's thread runs one iteration, after its sleep if any
MonitorStep(i) ==
    /\ tasks[i].pc = "watching"
    /\ now >= tasks[i].wake
    /\ \E qout \in QuoteOutcomes, oout \in StatusOutcomes :
         LET st == Iteration(tasks[i], hist[i], qout, oout)
         IN  \* place_order has an outcome only in an iteration that calls it
             /\ Len(st.api) = 2 \/ oout = Raises
             /\ tasks' = [tasks EXCEPT ![i] = st.task]
             /\ hist' = [hist EXCEPT ![i] = st.hist]
             /\ new_rows' = st.table
             /\ api_calls' = st.api
    /\ accesses' = accesses \cup MonitorAccesses(tasks[i])
    /\ UNCHANGED <<now, ctl_vars, calls, log_vars>>

Start == \E i \in DOMAIN tasks : MonitorStart(i)
Step == \E i \in DOMAIN tasks : MonitorStep(i)

\* -------------------------------------------------------------- TradingBot
AfterLogin_Ignored(ret) == "loop"

\* if not self.api.login(...): ...; return
AfterLogin(ret) == IF ret THEN "loop" ELSE "returned"

\* run() up to the polling loop
Login ==
    /\ ctl_pc = "start"
    /\ \E out \in StatusOutcomes :
         LET r == login(out, log_event(<<>>, "Info", <<"Starting the trading bot.">>))
         IN  /\ session' = r.session
             /\ IF r.raised
                THEN ctl_pc' = "raised" /\ new_rows' = r.table
                ELSE /\ ctl_pc' = AfterLogin(r.ret)
                     /\ new_rows' =
                            IF r.ret THEN r.table
                            ELSE log_event(r.table, "Error",
                                           <<"Exiting due to failed login.">>)
             /\ api_calls' = <<Call("login", <<>>, out)>>
    /\ calls' = [calls EXCEPT !.login = @ + 1]
    /\ UNCHANGED <<now, ctl_wake, tracked_positions, tasks, hist, accesses, log_vars>>

BeforeCutoff_OffByOne(t) == t =< END_TIME

\* datetime.now().time() < datetime.strptime(END_TIME, "%H:%M").time()
BeforeCutoff(t) == t < END_TIME

IsTracked_Never(tradingsymbol, tracked) == FALSE

\* position["tradingsymbol"] not in self.monitor.tracked_positions, negated
IsTracked(tradingsymbol, tracked) == tradingsymbol \in DOMAIN tracked

HandlePosition_Refresh(st, position) ==
    LET sym == position.tradingsymbol
    IN  IF ~IsTracked(sym, st.tracked)
        THEN [table |-> log_event(st.table, "Info", <<"New position detected", sym>>),
              tracked |-> [s \in DOMAIN st.tracked \cup {sym} |->
                              IF s = sym THEN position ELSE st.tracked[s]],
              tasks |-> Append(st.tasks, NewTask(position, DEFAULT_STOP_LOSS_PERCENT,
                                                 DEFAULT_TARGET_PERCENT)),
              hist |-> Append(st.hist, NewHist)]
        ELSE [st EXCEPT !.tracked[sym] = position]

\* the body of the for loop; st is the state the loop works on
HandlePosition(st, position) ==
    LET sym == position.tradingsymbol
    IN  IF ~IsTracked(sym, st.tracked)
        THEN [table |-> log_event(st.table, "Info", <<"New position detected", sym>>),
              tracked |-> [s \in DOMAIN st.tracked \cup {sym} |->
                              IF s = sym THEN position ELSE st.tracked[s]],
              tasks |-> Append(st.tasks, NewTask(position, DEFAULT_STOP_LOSS_PERCENT,
                                                 DEFAULT_TARGET_PERCENT)),
              hist |-> Append(st.hist, NewHist)]
        ELSE st

\* for position in positions: ...
RECURSIVE ForEachPosition(_, _)
ForEachPosition(st, ps) ==
    IF ps = <<>> THEN st
    ELSE ForEachPosition(HandlePosition(st, Head(ps)), Tail(ps))

\* the accesses of the for loop to tracked_positions: the membership test on
\* every position, the assignment on a position whose symbol is not a key
PollAccesses(ps, tracked) ==
    {Access("run", "read") : k \in DOMAIN ps}
    \cup {Access("run", "write") :
             k \in {j \in DOMAIN ps : ~IsTracked(ps[j].tradingsymbol, tracked)}}

\* what api_calls keeps of a poll: whether it raised and how many positions
\* it returned
PollOutcome(out) == [raised |-> out.raised, value |-> Len(out.value)]

\* One iteration of the while loop of run(): the loop condition holds, the
\* positions are fetched and scanned, and the thread sleeps.
Poll ==
    /\ ctl_pc = "loop"
    /\ now >= ctl_wake
    /\ BeforeCutoff(now)
    /\ \E out \in PositionOutcomes :
         LET r == get_positions(out, <<>>)
             st == ForEachPosition([table |-> r.table, tracked |-> tracked_positions,
                                    tasks |-> tasks, hist |-> hist], r.ret)
         IN  /\ api_calls' = <<Call("get_positions", <<>>, PollOutcome(out))>>
             /\ IF r.raised
                THEN /\ ctl_pc' = "raised"
                     /\ new_rows' = r.table
                     /\ UNCHANGED <<ctl_wake, tracked_positions, tasks, hist, accesses>>
                ELSE /\ ctl_pc' = "loop"
                     /\ ctl_wake' = now + FETCH_INTERVAL
                     /\ tracked_positions' = st.tracked
                     /\ tasks' = st.tasks
                     /\ hist' = st.hist
                     /\ accesses' = accesses \cup PollAccesses(r.ret, tracked_positions)
                     /\ new_rows' = log_event(st.table, "Info",
                                        <<"Waiting before the next position fetch.">>)
    /\ calls' = [calls EXCEPT !.get_positions = @ + 1]
    /\ UNCHANGED <<now, session, log_vars>>

TasksAtShutdown_Cancelled(ts) ==
    [i \in DOMAIN ts |-> IF ts[i].pc \in {"done", "raised"} THEN ts[i]
                         ELSE [ts[i] EXCEPT !.pc = "done"]]

\* What leaving the loop does to the submitted work items: the executor is
\* neither shut down nor are its futures cancelled or awaited.
TasksAtShutdown(ts) == ts

\* The loop condition fails: the two lines after the loop.
Shutdown ==
    /\ ctl_pc = "loop"
    /\ now >= ctl_wake
    /\ ~BeforeCutoff(now)
    /\ new_rows' = log_event(<<>>, "Info", <<"Shutting down trading bot.">>)
    /\ \E out \in LogoutOutcomes :
         /\ api_calls' = <<Call("logout", <<>>, out)>>
         /\ ctl_pc' = IF logout(out).raised THEN "raised" ELSE "returned"
    /\ calls' = [calls EXCEPT !.logout = @ + 1]
    /\ tasks' = TasksAtShutdown(tasks)
    /\ UNCHANGED <<now, ctl_wake, session, tracked_positions, hist, accesses, log_vars>>

\* ---------------------------------------------------------- specifications
NoCalls == [login |-> 0, get_positions |-> 0, logout |-> 0]

\* the state after TradingBot() is constructed and run() is entered
Init ==
    /\ now = 0
    /\ ctl_pc = "start"
    /\ ctl_wake = 0
    /\ session = "None"
    /\ tracked_positions = EmptyMapping
    /\ tasks = <<>>
    /\ new_rows = <<>>
    /\ api_calls = <<>>
    /\ calls = NoCalls
    /\ hist = <<>>
    /\ accesses = {}
    /\ event_table = <<>>
    /\ log_calls = NoLogCalls

Next == Tick \/ Login \/ Poll \/ Shutdown \/ Start \/ Step

Spec == Init /\ [][Next]_vars

\* monitor_trade called on its own, on any position and any percentages: the
\* controller does not run.  A position may have the average price 0.
MonitorPrices == (0..MaxPrice) \cup AvgPrices

MonitorInit ==
    /\ now = 0
    /\ ctl_pc = "idle"
    /\ ctl_wake = 0
    /\ session = "None"
    /\ tracked_positions = EmptyMapping
    /\ \E p \in MonitorPrices, s \in 0..MaxPercent, t \in 0..MaxPercent :
         tasks = <<NewTask([tradingsymbol |-> "A", avgnetprice |-> p, netqty |-> 1],
                           s, t)>>
    /\ new_rows = <<>>
    /\ api_calls = <<>>
    /\ calls = NoCalls
    /\ hist = <<NewHist>>
    /\ accesses = {}
    /\ event_table = <<>>
    /\ log_calls = NoLogCalls

MonitorNext == Tick \/ Start \/ Step

MonitorSpec == MonitorInit /\ [][MonitorNext]_vars

\* The executor after one poll that returned more new positions than the
\* pool has workers: the controller sleeps, the work items are queued.
PoolSymbols == <<"A", "B", "C", "D", "E", "F">>

PoolPositions ==
    [k \in 1..(max_workers + 1) |->
        [tradingsymbol |-> PoolSymbols[k], avgnetprice |-> 100, netqty |-> 1]]

PoolInit ==
    /\ now = 0
    /\ ctl_pc = "loop"
    /\ ctl_wake = FETCH_INTERVAL
    /\ session = "Ok"
    /\ tracked_positions =
          [sym \in {PoolPositions[k].tradingsymbol : k \in DOMAIN PoolPositions} |->
              CHOOSE p \in {PoolPositions[k] : k \in DOMAIN PoolPositions} :
                  p.tradingsymbol = sym]
    /\ tasks = [k \in DOMAIN PoolPositions |->
                  NewTask(PoolPositions[k], DEFAULT_STOP_LOSS_PERCENT,
                          DEFAULT_TARGET_PERCENT)]
    /\ new_rows = <<>>
    /\ api_calls = <<>>
    /\ calls = [NoCalls EXCEPT !.login = 1, !.get_positions = 1]
    /\ hist = [k \in DOMAIN PoolPositions |-> NewHist]
    /\ accesses = {Access("run", "read"), Access("run", "write")}
    /\ event_table = <<>>
    /\ log_calls = NoLogCalls

\* The worker threads take work items and run them up to their first
\* get_quotes call, which the broker has not answered yet; time passes.
PoolNext == Tick \/ Start

PoolSpec == PoolInit /\ [][PoolNext]_vars

\* Logger.log_event under concurrent callers.  A thread enters log_event and
\* reads the clock (line 25); later it adds the row (line 26) and returns.
\* Any other thread may run between the two.
LogStatuses == {"Info", "Error"}

log_event_now(c) ==
    /\ ~log_calls[c].active
    /\ Len(event_table) + Cardinality({d \in LogThreads : log_calls[d].active}) < MaxRows
    /\ \E status \in LogStatuses :
         log_calls' = [log_calls EXCEPT ![c] =
                          [active |-> TRUE, current_time |-> now, status |-> status,
                           description |-> <<"event of", c>>]]
    /\ UNCHANGED <<now, ctl_vars, tasks, new_rows, api_calls, calls, hist, accesses,
                   event_table>>

log_event_add_row(c) ==
    /\ log_calls[c].active
    /\ event_table' = Append(event_table,
                             [time |-> log_calls[c].current_time,
                              status |-> log_calls[c].status,
                              description |-> log_calls[c].description])
    /\ log_calls' = [log_calls EXCEPT ![c] = NoLogCall]
    /\ UNCHANGED <<now, ctl_vars, tasks, new_rows, api_calls, calls, hist, accesses>>

ReadClock == \E c \in LogThreads : log_event_now(c)
AddRow == \E c \in LogThreads : log_event_add_row(c)

LoggerInit ==
    /\ now = 0
    /\ ctl_pc = "idle"
    /\ ctl_wake = 0
    /\ session = "None"
    /\ tracked_positions = EmptyMapping
    /\ tasks = <<>>
    /\ new_rows = <<>>
    /\ api_calls = <<>>
    /\ calls = NoCalls
    /\ hist = <<>>
    /\ accesses = {}
    /\ event_table = <<>>
    /\ log_calls = NoLogCalls

LoggerNext == Tick \/ ReadClock \/ AddRow

LoggerSpec == LoggerInit /\ [][LoggerNext]_vars

\* ------------------------------------------------------------ the claims
\* what the claims read of a step
Stepped(i) == tasks[i].pc = "watching" /\ tasks'[i] # tasks[i]
Made(k, method) == k \in DOMAIN api_calls /\ api_calls[k].method = method
Makes(k, method) == k \in DOMAIN api_calls' /\ api_calls'[k].method = method
LastRow(rows) == rows[Len(rows)]
RowsWith(rows, status, text) ==
    {k \in DOMAIN rows : rows[k].status = status /\ rows[k].description[1] = text}

\* a quote outcome that is a price: status "Ok" and a numeric lp
Priced(out) ==
    /\ ~out.raised
    /\ Get(out.value, "stat", "None") = "Ok"
    /\ "lp" \in DOMAIN out.value
    /\ out.value.lp.numeric
\* a quote outcome that is a failed fetch
FailedFetch(out) == out.raised \/ Get(out.value, "stat", "None") # "Ok"
\* a status outcome that is a failure
FailedCall(out) == out.raised \/ Get(out.value, "stat", "None") # "Ok"

\* price >= target_price or price <= stop_loss_price, on the position's
\* average price and the task's percentages
Crossed(price, t) ==
    \/ price * 100 >= t.position.avgnetprice * (100 + t.target_percent)
    \/ price * 100 =< t.position.avgnetprice * (100 - t.stop_loss_percent)

\* C1: a monitor places its order on the first tick whose price is at or
\* beyond a threshold (equality counts) and on no other tick: a priced tick
\* that crosses a threshold ends in exactly one place_order call in the same
\* iteration and the end of the task, a priced tick that crosses none places
\* no order and keeps the task watching, no task places more than one order,
\* and a task that is done fetches no further quote.
C1_OrderOnFirstHit ==
    /\ [](\A i \in DOMAIN tasks :
            /\ hist[i].placed =< 1
            /\ tasks[i].pc = "done" <=> hist[i].placed = 1)
    /\ [][\A i \in DOMAIN tasks :
            /\ tasks[i].pc = "done" => tasks'[i] = tasks[i] /\ hist'[i] = hist[i]
            /\ (Stepped(i) /\ Priced(api_calls'[1].outcome)) =>
                  IF Crossed(api_calls'[1].outcome.value.lp.v, tasks[i])
                  THEN /\ tasks'[i].pc = "done"
                       /\ hist'[i].placed = hist[i].placed + 1
                       /\ Len(api_calls') = 2 /\ Makes(2, "place_order")
                  ELSE /\ tasks'[i].pc = "watching"
                       /\ hist'[i].placed = hist[i].placed
                       /\ Len(api_calls') = 1]_vars

\* C1 witness: average 100, stop 2%, target 5%; after an earlier iteration
\* that placed no order, a tick of 106 has placed the one order.
C1_Witness ==
    /\ Len(tasks) = 1 /\ ctl_pc = "idle"
    /\ tasks[1].position.avgnetprice = 100
    /\ tasks[1].stop_loss_percent = 2 /\ tasks[1].target_percent = 5
    /\ tasks[1].pc = "done" /\ tasks[1].wake > 0 /\ hist[1].placed = 1
    /\ Made(1, "get_quotes") /\ Priced(api_calls[1].outcome)
    /\ api_calls[1].outcome.value.lp.v = 106
    /\ Made(2, "place_order")

TasksFor(ts, sym) == {i \in DOMAIN ts : ts[i].position.tradingsymbol = sym}

C3_FailedLoginStops ==
    (ctl_pc # "start" /\ session # "Ok") =>
        /\ ctl_pc \in {"returned", "raised"}
        /\ calls.get_positions = 0 /\ calls.logout = 0
        /\ tasks = <<>>
        /\ \A k \in DOMAIN api_calls : api_calls[k].method = "login"
        /\ (Made(1, "login") /\ ~api_calls[1].outcome.raised) =>
              /\ ctl_pc = "returned"
              /\ Len(new_rows) >= 2
              /\ new_rows[Len(new_rows) - 1].status = "Failed"
              /\ LastRow(new_rows).status = "Error"

\* C3 witness: login was refused and time has passed with run() returned
C3_Witness ==
    /\ ctl_pc = "returned" /\ session = "None" /\ calls.login = 1
    /\ now = MaxTicks * FETCH_INTERVAL

\* C4: a raising vendor get_positions or get_quotes does not end the caller
\* by an exception; the wrapper appends exactly one Error row of its own and
\* the caller goes on as on the sentinel: an empty poll (nothing tracked, no
\* task submitted, the loop sleeps) and a failed quote fetch (no order, the
\* monitor sleeps).
C4_FetchFailureIsSentinel ==
    /\ [](/\ (Made(1, "get_positions") /\ api_calls[1].outcome.raised) =>
                /\ ctl_pc = "loop"
                /\ Cardinality(RowsWith(new_rows, "Error", "Error fetching positions")) = 1
                /\ RowsWith(new_rows, "Info", "New position detected") = {}
          /\ (Made(1, "get_quotes") /\ api_calls[1].outcome.raised) =>
                /\ Cardinality(RowsWith(new_rows, "Error",
                                        "Error fetching quotes for")) = 1
                /\ Len(api_calls) = 1)
    /\ [][/\ (Makes(1, "get_positions") /\ api_calls'[1].outcome.raised) =>
                /\ tasks' = tasks
                /\ tracked_positions' = tracked_positions
                /\ ctl_wake' = now + FETCH_INTERVAL
          /\ \A i \in DOMAIN tasks :
                (Stepped(i) /\ api_calls'[1].outcome.raised) =>
                    /\ tasks'[i].pc = "watching"
                    /\ tasks'[i].wake = now + MONITOR_INTERVAL
                    /\ hist'[i] = hist[i]]_vars

\* C4 witness: a poll has raised while a monitor is watching, and the run
\* goes on
C4_Witness ==
    /\ Made(1, "get_positions") /\ api_calls[1].outcome.raised
    /\ ctl_pc = "loop"
    /\ \E i \in DOMAIN tasks : tasks[i].pc = "watching"

\* C5 (as claimed): in no step in which a vendor call raises does run() or a
\* monitoring task end by an exception.
C5_NoVendorFailurePropagates ==
    [][(\E k \in DOMAIN api_calls' : api_calls'[k].outcome.raised) =>
          /\ ctl_pc' = "raised" => ctl_pc = "raised"
          /\ \A i \in DOMAIN tasks :
                tasks'[i].pc = "raised" => tasks[i].pc = "raised"]_vars

\* C6: the thresholds of a running monitor are those of its position and
\* percentages, stop_loss_price <= average price <= target_price, (98, 105)
\* for average 100, stop 2% and target 5% (prices scaled by 100); they are
\* set when the task starts and no later step changes them.
C6_Thresholds ==
    /\ [](\A i \in DOMAIN tasks :
            LET t == tasks[i]
                p == t.position.avgnetprice
            IN  t.pc # "queued" =>
                  /\ t.stop_loss_price = p * (100 - t.stop_loss_percent)
                  /\ t.target_price = p * (100 + t.target_percent)
                  /\ t.stop_loss_price =< p * 100
                  /\ p * 100 =< t.target_price
                  /\ (p = 100 /\ t.stop_loss_percent = 2 /\ t.target_percent = 5) =>
                        t.stop_loss_price = 98 * 100 /\ t.target_price = 105 * 100)
    /\ [][\A i \in DOMAIN tasks :
            tasks[i].pc # "queued" =>
              /\ tasks'[i].stop_loss_price = tasks[i].stop_loss_price
              /\ tasks'[i].target_price = tasks[i].target_price]_vars

\* C6 witness: the monitor of average 100, stop 2%, target 5% has run its
\* loop to the end with the thresholds 98 and 105
C6_Witness ==
    /\ ctl_pc = "idle" /\ Len(tasks) = 1
    /\ tasks[1].position.avgnetprice = 100
    /\ tasks[1].stop_loss_percent = 2 /\ tasks[1].target_percent = 5
    /\ tasks[1].stop_loss_price = 9800 /\ tasks[1].target_price = 10500
    /\ tasks[1].pc = "done" /\ tasks[1].wake > 0

\* C7: positions are fetched only while the time is before the cutoff; the
\* loop is left only at a time at or after the cutoff, and then logout is
\* called, once; once logout is called no position is fetched and no task is
\* submitted; a run that has logged in and ended has called logout once.
C7_PollUntilCutoff ==
    /\ [](/\ Made(1, "get_positions") => now < END_TIME
          /\ Made(1, "logout") => now >= END_TIME
          /\ calls.logout =< 1
          /\ calls.logout = 1 => ctl_pc \in {"returned", "raised"}
          /\ (session = "Ok" /\ ctl_pc \in {"returned", "raised"}) => calls.logout = 1)
    /\ [][/\ calls.logout = 1 =>
                /\ calls'.get_positions = calls.get_positions
                /\ Len(tasks') = Len(tasks)
          /\ (ctl_pc = "loop" /\ ctl_pc' # "loop") =>
                /\ now >= END_TIME
                /\ calls'.logout = calls.logout + 1
                /\ Makes(1, "logout")
          /\ (ctl_pc = "loop" /\ now >= END_TIME) =>
                calls'.get_positions = calls.get_positions]_vars

\* C7 witness: the time was at the cutoff right after login: logout has been
\* called and no position was ever fetched
C7_Witness ==
    /\ session = "Ok" /\ calls.get_positions = 0 /\ calls.logout = 1
    /\ Made(1, "logout")

\* C8: the controller's logout leaves every submitted task as it is, and a
\* watching monitor whose sleep is over can run its next iteration whatever
\* state the controller is in.
C8_MonitorsOutliveLogout ==
    /\ [](\A i \in DOMAIN tasks :
            (calls.logout = 1 /\ tasks[i].pc = "watching" /\ now >= tasks[i].wake)
                => ENABLED MonitorStep(i))
    /\ [][calls'.logout # calls.logout => tasks' = tasks /\ hist' = hist]_vars

\* C8 witness: after the controller has logged out and returned, a monitor
\* has fetched a quote and placed its order
C8_Witness ==
    /\ calls.logout = 1 /\ ctl_pc = "returned"
    /\ Made(1, "get_quotes") /\ Made(2, "place_order")

\* C9: an iteration whose quote fetch fails (the call raises or the status is
\* not "Ok") appends an Error row, places no order and leaves the monitor
\* watching, to fetch again MONITOR_INTERVAL seconds later; a monitor only
\* ends in an iteration whose fetch did not fail.
C9_FailedFetchKeepsWatching ==
    [][\A i \in DOMAIN tasks :
          /\ (Stepped(i) /\ FailedFetch(api_calls'[1].outcome)) =>
                /\ tasks'[i].pc = "watching"
                /\ tasks'[i].wake = now + MONITOR_INTERVAL
                /\ hist'[i].placed = hist[i].placed
                /\ Len(api_calls') = 1
                /\ LastRow(new_rows').status = "Error"
                /\ LastRow(new_rows').description = <<"Error fetching quotes">>
          /\ (Stepped(i) /\ tasks'[i].pc # "watching") =>
                ~FailedFetch(api_calls'[1].outcome)]_vars

\* C9 witness: a fetch has just failed at the second tick or later and the
\* monitor is watching, without an order, asleep until the next tick
C9_Witness ==
    /\ ctl_pc = "idle" /\ Len(tasks) = 1
    /\ Made(1, "get_quotes") /\ FailedFetch(api_calls[1].outcome)
    /\ now >= FETCH_INTERVAL
    /\ tasks[1].pc = "watching" /\ tasks[1].wake = now + MONITOR_INTERVAL
    /\ hist[1].placed = 0

\* C10 (as claimed): after a failed place_order the monitor goes on polling
C10_OrderFailureContinues ==
    [][\A i \in DOMAIN tasks :
          (Stepped(i) /\ Makes(2, "place_order") /\ FailedCall(api_calls'[2].outcome))
              => tasks'[i].pc = "watching"]_vars

\* C10 (amended): a failed place_order is logged (a Failed or an Error row)
\* and does not end the task by an exception, but the monitor leaves its loop:
\* the task is done and makes no further call
C10_OrderFailureEndsMonitor ==
    [][\A i \in DOMAIN tasks :
          /\ (Stepped(i) /\ Makes(2, "place_order")
                  /\ FailedCall(api_calls'[2].outcome)) =>
                /\ tasks'[i].pc = "done"
                /\ LastRow(new_rows').status \in {"Failed", "Error"}
          /\ tasks[i].pc = "done" => tasks'[i] = tasks[i] /\ hist'[i] = hist[i]]_vars

\* C10 witness: the vendor's place_order has raised and the task is done
C10_Witness ==
    /\ ctl_pc = "idle" /\ Len(tasks) = 1
    /\ Made(2, "place_order") /\ api_calls[2].outcome.raised
    /\ tasks[1].pc = "done" /\ hist[1].placed = 1

\* C11 (as claimed): the timestamps of the rows of the event table are
\* non-decreasing in table order, whichever threads call log_event.
C11_LogOrderedByTime ==
    \A j, k \in DOMAIN event_table :
        j < k => event_table[j].time =< event_table[k].time

\* C12 (as claimed): the submitted monitoring task at the head of the queue
\* can start running whatever the other monitors do: it does not wait for a
\* monitor that is still watching.
C12_EveryTaskCanStart ==
    \A i \in DOMAIN tasks :
        (tasks[i].pc = "queued" /\ QueuedBefore(i) = {}) => ENABLED MonitorStart(i)

\* two threads have accessed tracked_positions, at least one of them writing
Race(acc) ==
    \E a, b \in acc : a.thread # b.thread /\ (a.kind = "write" \/ b.kind = "write")

C14_EndsOnlyAfterOneOrder ==
    \A i \in DOMAIN tasks :
        tasks[i].pc \in {"done", "raised"} => hist[i].placed = 1

\* C15: a poll whose get_positions call failed does what a poll that returned
\* the empty list does: the tracked set, the submitted tasks and their
\* monitors are left as they are, and the controller stays in its loop and
\* sleeps FETCH_INTERVAL seconds; the failed poll differs by one Error row.
\* A controller in its loop whose sleep is over before the cutoff can poll.
C15_FailedPollIsEmptyPoll ==
    /\ []((ctl_pc = "loop" /\ now >= ctl_wake /\ BeforeCutoff(now)) => ENABLED Poll)
    /\ [][(Makes(1, "get_positions") /\ calls'.get_positions # calls.get_positions
             /\ (api_calls'[1].outcome.raised \/ api_calls'[1].outcome.value = 0)) =>
              /\ tracked_positions' = tracked_positions
              /\ tasks' = tasks
              /\ hist' = hist
              /\ session' = session
              /\ ctl_pc' = "loop"
              /\ ctl_wake' = now + FETCH_INTERVAL
              /\ LastRow(new_rows').description =
                     <<"Waiting before the next position fetch.">>
              /\ Len(new_rows') = IF api_calls'[1].outcome.raised THEN 2 ELSE 1
              /\ api_calls'[1].outcome.raised => new_rows'[1].status = "Error"]_vars

\* C15 witness: the second poll has just failed; the symbol found by the
\* first poll is tracked, its monitor is asleep in its loop, and the
\* controller sleeps until the next poll
C15_Witness ==
    /\ Made(1, "get_positions") /\ api_calls[1].outcome.raised
    /\ calls.get_positions = 2
    /\ Len(tasks) = 1 /\ DOMAIN tracked_positions = {"A"}
    /\ tasks[1].pc = "watching" /\ tasks[1].wake > now
    /\ ctl_pc = "loop" /\ ctl_wake = now + FETCH_INTERVAL

\* C16: the tracked set only grows and an entry, once recorded, is never
\* replaced; in every state between steps the tracked symbols are exactly
\* the symbols with a submitted task, each with exactly one task, which holds
\* the recorded position; a step of a monitor task leaves the mapping as it
\* is.
C16_TrackedIsSubmitted ==
    /\ [](/\ DOMAIN tracked_positions =
                {tasks[i].position.tradingsymbol : i \in DOMAIN tasks}
          /\ \A sym \in DOMAIN tracked_positions :
                /\ Cardinality(TasksFor(tasks, sym)) = 1
                /\ \A i \in TasksFor(tasks, sym) :
                      tasks[i].position = tracked_positions[sym])
    /\ [][/\ \A sym \in DOMAIN tracked_positions :
                /\ sym \in DOMAIN tracked_positions'
                /\ tracked_positions'[sym] = tracked_positions[sym]
          /\ (\E i \in DOMAIN tasks : tasks'[i] # tasks[i]) =>
                tracked_positions' = tracked_positions
          /\ Len(tasks') - Len(tasks) =
                Cardinality(DOMAIN tracked_positions')
                    - Cardinality(DOMAIN tracked_positions)]_vars

\* C16 witness: the second poll has just returned two positions and added
\* the second symbol; the monitor of the first symbol has ended
C16_Witness ==
    /\ Made(1, "get_positions") /\ ~api_calls[1].outcome.raised
    /\ api_calls[1].outcome.value = 2 /\ calls.get_positions = 2
    /\ DOMAIN tracked_positions = {"A", "B"} /\ Len(tasks) = 2
    /\ tasks[1].pc = "done" /\ tasks[2].pc = "queued"
    /\ RowsWith(new_rows, "Info", "New position detected") # {}

\* a quote outcome with status "Ok" and no last traded price
Unpriced(out) ==
    /\ ~out.raised
    /\ Get(out.value, "stat", "None") = "Ok"
    /\ "lp" \notin DOMAIN out.value

\* C17 (as claimed): on a tick with status "Ok" and no last traded price, a
\* monitor whose stop_loss_price is >= 0 takes the stop-loss branch and
\* places the sell order.
C17_MissingPriceIsStopLoss ==
    [][\A i \in DOMAIN tasks :
          (Stepped(i) /\ Unpriced(api_calls'[1].outcome)
                /\ tasks[i].stop_loss_price >= 0) =>
              /\ RowsWith(new_rows', "Success", "Stop-loss hit for") # {}
              /\ Makes(2, "place_order")
              /\ api_calls'[2].args.buy_or_sell = "S"]_vars

\* C17 (amended): a tick with status "Ok" and no last traded price is the
\* price 0 and never a failed fetch: a monitor whose stop_loss_price is >= 0
\* places the sell order on that tick and ends; it takes the stop-loss branch
\* when its target_price is > 0 and the target branch, which is tested first,
\* when its target_price is <= 0 (average price 0).
C17_MissingPriceIsZero ==
    [][\A i \in DOMAIN tasks :
          (Stepped(i) /\ Unpriced(api_calls'[1].outcome)
                /\ tasks[i].stop_loss_price >= 0) =>
              /\ RowsWith(new_rows', "Error", "Error fetching quotes") = {}
              /\ Len(api_calls') = 2 /\ Makes(2, "place_order")
              /\ api_calls'[2].args.buy_or_sell = "S"
              /\ tasks'[i].pc = "done"
              /\ hist'[i].placed = hist[i].placed + 1
              /\ IF tasks[i].target_price > 0
                 THEN /\ RowsWith(new_rows', "Success", "Stop-loss hit for") # {}
                      /\ RowsWith(new_rows', "Success", "Target hit for") = {}
                 ELSE /\ RowsWith(new_rows', "Success", "Target hit for") # {}
                      /\ RowsWith(new_rows', "Success", "Stop-loss hit for") = {}]_vars

\* C17 witness: the monitor of average price 100 got a tick without a price,
\* took the stop-loss branch and placed its order
C17_Witness ==
    /\ ctl_pc = "idle" /\ Len(tasks) = 1
    /\ tasks[1].position.avgnetprice = 100 /\ tasks[1].stop_loss_price > 0
    /\ Made(1, "get_quotes") /\ Unpriced(api_calls[1].outcome)
    /\ Made(2, "place_order")
    /\ RowsWith(new_rows, "Success", "Stop-loss hit for") # {}
    /\ tasks[1].pc = "done"

\* C18: every order a monitor places is a sell ("S") of the task's symbol for
\* the net quantity of the position recorded when the symbol was discovered,
\* negative and zero quantities as they are; no step changes the position a
\* task or the tracked set holds, whatever later polls report.
C18_OrderIsCapturedQuantity ==
    [][/\ \A i \in DOMAIN tasks :
             /\ tasks'[i].position = tasks[i].position
             /\ (Stepped(i) /\ \E k \in DOMAIN api_calls' : Makes(k, "place_order")) =>
                   LET sym == tasks[i].position.tradingsymbol
                   IN  /\ Len(api_calls') = 2 /\ Makes(2, "place_order")
                       /\ api_calls'[2].args.buy_or_sell = "S"
                       /\ api_calls'[2].args.tradingsymbol = sym
                       /\ api_calls'[2].args.quantity = tracked_positions[sym].netqty
                       /\ api_calls'[2].args.quantity = tasks[i].position.netqty
       /\ \A sym \in DOMAIN tracked_positions :
             tracked_positions'[sym].netqty = tracked_positions[sym].netqty]_vars

\* C18 witness: after two polls a monitor has placed the order for symbol A
\* with the negative quantity recorded at discovery
C18_Witness ==
    /\ Made(2, "place_order")
    /\ api_calls[2].args.tradingsymbol = "A"
    /\ api_calls[2].args.quantity = -1 /\ api_calls[2].args.buy_or_sell = "S"
    /\ tracked_positions["A"].netqty = -1
    /\ calls.get_positions = 2

====
